---- MODULE Spec2Model ----
(***************************************************************************)
(* First-boot seeding of snapd: overlord/devicestate/firstboot.go.         *)
(*                                                                         *)
(* populateStateFromSeedImpl compiles the seed (assertions + seed.yaml)    *)
(* into an ordered list of task sets; importAssertionsFromSeed imports the *)
(* assertions, finds the one model assertion and sets the device identity. *)
(* Each action below is one statement group of the two functions; pc is    *)
(* the position inside the running call.                                   *)
(***************************************************************************)
EXTENDS Integers, Sequences, FiniteSets, TLC

(* ---------------------------- bounds ---------------------------------- *)
MaxFiles == 2        \* files in the assertions directory
MaxRefs  == 2        \* assertions per file
MaxSnaps == 3        \* entries in seed.yaml
MaxCalls == 2        \* calls of populateStateFromSeedImpl in one behaviour

(* ---------------------------- values ---------------------------------- *)
\* snap names that seed.yaml and the model may use
Names == {"core", "pc-kernel", "pc", "hello"}
\* names the model's required-snaps header may list
ReqNames == {"hello", "pc"}

\* primary keys (brand-id, model) of the model assertions that may be seeded
ModelKeys == {<<"canonical", "pc">>, <<"other-brand", "pc">>}
\* assertion references: a type and a primary key
Refs == {[type |-> "model", key |-> k] : k \in ModelKeys}
          \cup {[type |-> "account-key", key |-> <<"canonical", "key">>]}
NoRef == [type |-> "none", key |-> <<>>]

\* asserts.Ref.Unique: the type together with the primary key
Unique(ref) == <<ref.type>> \o ref.key

SeqsUpTo(S, n) == UNION {[1..k -> S] : k \in 0..n}

\* one file of the assertions directory: whether os.Open/AddStream succeed,
\* and the references AddStream returns
FilesOf(maxRefs) ==
  {[ok |-> FALSE, refs |-> <<>>]}
    \cup {[ok |-> TRUE, refs |-> r] : r \in SeqsUpTo(Refs, maxRefs)}
\* listings ioutil.ReadDir can return
ListingsOf(maxFiles, maxRefs) == SeqsUpTo(FilesOf(maxRefs), maxFiles)
Listings == ListingsOf(MaxFiles, MaxRefs)
\* a directory of at most one file with at most one assertion
SmallListings == ListingsOf(1, 1)
\* the directory of a well-formed seed: one file with the model assertion
SeedListing ==
  {<<[ok |-> TRUE, refs |-> <<[type |-> "model", key |-> <<"canonical", "pc">>]>>]>>}

\* model assertions: the headers the code reads
Models == [brand : {"canonical", "other-brand"}, model : {"pc"},
           classic : BOOLEAN,
           kernel : Names \cup {""}, gadget : Names \cup {""},
           required : SUBSET ReqNames]
NoModel == [brand |-> "", model |-> "", classic |-> FALSE,
            kernel |-> "", gadget |-> "", required |-> {}]
\* models with at most a kernel
SmallModels ==
  {m \in Models : m.kernel \in {"", "pc-kernel"} /\ m.gadget = "" /\ m.required = {}}

\* seed.yaml contents: entries have unique names
ManifestsOf(maxSnaps) ==
  {s \in SeqsUpTo(Names, maxSnaps) :
     \A i, j \in DOMAIN s : i # j => s[i] # s[j]}
Manifests == ManifestsOf(MaxSnaps)
\* seed.yaml with at most two entries
SmallManifests == ManifestsOf(2)

\* auth.DeviceState when nothing was stored
NoDevice == [brand |-> "", model |-> ""]

(* --------------------------- error values ------------------------------ *)
NoErr               == "nil"
ErrNothingToDo      == "nothing to do"
ErrSeededRead       == "state: cannot read seeded"
ErrAlreadySeeded    == "cannot populate state: already seeded"
ErrDeviceRead       == "auth: cannot read device"
ErrReadDir          == "cannot read assert seed dir"
ErrReadAsserts      == "cannot read assertions"
ErrManyModels       == "cannot add more than one model assertion"
ErrNeedModel        == "need a model assertion"
ErrCommit           == "assertstate: commit failed"
ErrResolve          == "internal error: cannot find just added assertion"
ErrClassicModel     == "cannot seed an all-snaps system with a classic model"
ErrAllSnapsModel    == "cannot seed a classic system with an all-snaps model"
ErrSetDevice        == "auth: cannot set device"
ErrReadSeedYaml     == "cannot read seed yaml"
ErrNoCore           == "cannot proceed without seeding core"
ErrNoKernelSeed     == "cannot find seed information for kernel snap"
ErrNoGadgetSeed     == "cannot find seed information for gadget snap"
ErrNoSignatures     == "cannot find signatures with metadata for snap"
ErrDeriveSideInfo   == "snapasserts: cannot derive side info"
ErrInstallPath      == "snapstate: cannot install"
ErrNoSnaps          == "cannot proceed, no snaps to seed"

VARIABLES
  \* durable state
  seeded,        \* the "seeded" entry of the state: "unset", "true", "invalid"
  store,         \* assertion database: the committed references
  device,        \* auth device record: brand and model
  onClassic,     \* release.OnClassic
  \* the running call
  pc,            \* position in populateStateFromSeedImpl / importAssertionsFromSeed
  calls,         \* calls started so far
  seeded0, store0, device0,   \* durable state when the call started
  did,           \* the effects the call has performed so far
  devWrites,     \* auth.SetDevice writes in this call
  commitCalls,   \* batch.Commit calls in this call
  \* locals of importAssertionsFromSeed
  dirKnown,      \* ReadDir has returned a listing
  dc,            \* the listing
  fi,            \* files of dc already read
  batch,         \* references accumulated in the batch
  modelRef,      \* the model reference kept so far
  sawConflict,   \* a model reference with another identity was met
  modelAssertion,\* the model assertion the reference resolved to
  importErr,     \* error returned by importAssertionsFromSeed
  model,         \* model assertion returned by importAssertionsFromSeed
  \* locals of populateStateFromSeedImpl
  markSeeded,    \* the mark-seeded task: whether created, the task sets it waits on
  seedRead,      \* seed.yaml has been parsed
  seed,          \* seed.Snaps (names, in order)
  tsAll,         \* task sets in order
  configTss,     \* configure task sets of core, kernel, gadget
  last,          \* index bookkeeping of the code
  alreadySeeded, \* names installed as core, kernel or gadget
  li,            \* entries of seed.Snaps the final loop has visited
  nextId,        \* id of the next task set
  sideInfoFrom,  \* how the latest installSeedSnap built its side info
  snapMet,       \* the entry the latest installSeedSnap was given and what it met
  \* what the call finds on disk
  seedDir,       \* the assertions directory: absent, unreadable or listed
  seedFile,      \* seed.yaml: absent, unreadable or parsed
  \* result of the call
  retErr,        \* returned error
  retTs          \* returned task sets

durable == <<seeded, store, device, onClassic>>
callvars == <<calls, seeded0, store0, device0>>
effects == <<did, devWrites, commitCalls>>
implocals == <<dirKnown, dc, fi, batch, modelRef, sawConflict, modelAssertion>>
impresult == <<importErr, model>>
poplocals == <<markSeeded, seedRead, seed, tsAll, configTss, last,
               alreadySeeded, li, nextId, sideInfoFrom, snapMet>>
found == <<seedDir, seedFile>>
result == <<retErr, retTs>>
vars == <<seeded, store, device, onClassic, pc, calls, seeded0, store0, device0,
          did, devWrites, commitCalls, dirKnown, dc, fi, batch, modelRef,
          sawConflict, modelAssertion, importErr, model, markSeeded, seedRead, seed, tsAll,
          configTss, last, alreadySeeded, li, nextId, sideInfoFrom, snapMet,
          seedDir, seedFile, retErr, retTs>>

NoTask == [created |-> FALSE, waits |-> {}]

\* installSeedSnap has not been called
NoSnap == [name |-> ""]

\* what earlier boots can have left behind: nothing; a committed batch with
\* the device record not yet set (the call failed after the commit); a
\* committed batch and the device record set from its model
EarlierImports ==
  {[store |-> {}, device |-> NoDevice],
   [store |-> {[type |-> "model", key |-> <<"canonical", "pc">>]},
    device |-> NoDevice],
   [store |-> {[type |-> "model", key |-> <<"canonical", "pc">>]},
    device |-> [brand |-> "canonical", model |-> "pc"]],
   [store |-> {[type |-> "model", key |-> <<"other-brand", "pc">>],
               [type |-> "account-key", key |-> <<"canonical", "key">>]},
    device |-> [brand |-> "other-brand", model |-> "pc"]]}

\* the state before the first call, for the given durable states
InitWith(earlier) ==
  /\ seeded \in {"unset", "true", "invalid"}
  /\ \E e \in earlier : store = e.store /\ device = e.device
  /\ onClassic \in BOOLEAN
  /\ pc = "idle"
  /\ calls = 0
  /\ seeded0 = seeded /\ store0 = store /\ device0 = device
  /\ did = {} /\ devWrites = 0 /\ commitCalls = 0
  /\ dirKnown = FALSE /\ dc = <<>> /\ fi = 0 /\ batch = {}
  /\ modelRef = NoRef /\ sawConflict = FALSE /\ modelAssertion = NoModel
  /\ importErr = NoErr /\ model = NoModel
  /\ markSeeded = NoTask /\ seedRead = FALSE /\ seed = <<>>
  /\ tsAll = <<>> /\ configTss = <<>> /\ last = 0
  /\ alreadySeeded = {} /\ li = 0 /\ nextId = 1 /\ sideInfoFrom = "none"
  /\ snapMet = NoSnap /\ seedDir = "unknown" /\ seedFile = "unknown"
  /\ retErr = NoErr /\ retTs = <<>>

\* a freshly installed system
Init == InitWith({[store |-> {}, device |-> NoDevice]})

\* a system on which earlier boots may have imported assertions
InitImport == InitWith(EarlierImports)

\* return (ts, err) from populateStateFromSeedImpl
Return(ts, err) ==
  /\ pc' = "done"
  /\ retTs' = ts
  /\ retErr' = err

\* populateStateFromSeedImpl is entered: fresh locals
Call(maxCalls) ==
  /\ pc \in {"idle", "done", "panicked"}
  /\ calls < maxCalls
  /\ calls' = calls + 1
  /\ pc' = "p_get_seeded"
  /\ seeded0' = seeded /\ store0' = store /\ device0' = device
  /\ did' = {} /\ devWrites' = 0 /\ commitCalls' = 0
  /\ dirKnown' = FALSE /\ dc' = <<>> /\ fi' = 0 /\ batch' = {}
  /\ modelRef' = NoRef /\ sawConflict' = FALSE /\ modelAssertion' = NoModel
  /\ importErr' = NoErr /\ model' = NoModel
  /\ markSeeded' = NoTask /\ seedRead' = FALSE /\ seed' = <<>>
  /\ tsAll' = <<>> /\ configTss' = <<>> /\ last' = 0
  /\ alreadySeeded' = {} /\ li' = 0 /\ nextId' = 1 /\ sideInfoFrom' = "none"
  /\ snapMet' = NoSnap /\ seedDir' = "unknown" /\ seedFile' = "unknown"
  /\ retErr' = NoErr /\ retTs' = <<>>
  /\ UNCHANGED durable

\* variant: the seeded flag is not looked at
AlreadySeeded_Never(s) == FALSE

\* firstboot.go 80: if seeded
AlreadySeeded(s) == s = "true"

\* firstboot.go 75-82: st.Get("seeded", &seeded) and the already-seeded check
GetSeeded ==
  /\ pc = "p_get_seeded"
  /\ IF seeded = "invalid" THEN Return(<<>>, ErrSeededRead)
     ELSE IF AlreadySeeded(seeded) THEN Return(<<>>, ErrAlreadySeeded)
     ELSE /\ pc' = "p_new_task"
          /\ UNCHANGED result
  /\ UNCHANGED <<durable, callvars, found, effects, implocals, impresult, poplocals>>

\* firstboot.go 84: markSeeded := st.NewTask("mark-seeded", ...)
NewMarkSeeded ==
  /\ pc = "p_new_task"
  /\ markSeeded' = [created |-> TRUE, waits |-> {}]
  /\ did' = did \cup {"new-task"}
  /\ pc' = "i_device"
  /\ UNCHANGED <<durable, callvars, found, devWrites, commitCalls, implocals, impresult,
                 seedRead, seed, tsAll, configTss, last, alreadySeeded, li,
                 nextId, sideInfoFrom, snapMet, result>>

\* importAssertionsFromSeed returns (m, err) to line 87
ImportReturn(m, err) ==
  /\ pc' = "p_import_ret"
  /\ model' = m
  /\ importErr' = err

\* firstboot.go 223-226: device, err := auth.Device(st)
ReadDevice ==
  /\ pc = "i_device"
  /\ did' = did \cup {"read-device"}
  /\ \E ok \in BOOLEAN :
       IF ok THEN pc' = "i_readdir" /\ UNCHANGED impresult
       ELSE ImportReturn(NoModel, ErrDeviceRead)
  /\ UNCHANGED <<durable, callvars, found, devWrites, commitCalls, implocals,
                 poplocals, result>>

\* variant: a missing directory is nothing to do on every build
NothingToImport_AnyBuild(classicBuild, notExist) == notExist

\* firstboot.go 231: if release.OnClassic && os.IsNotExist(err)
NothingToImport(classicBuild, notExist) == classicBuild /\ notExist

\* firstboot.go 229-237: ioutil.ReadDir(assertSeedDir)
ReadDir(listings) ==
  /\ pc = "i_readdir"
  /\ did' = did \cup {"read-dir"}
  /\ \E outcome \in {"absent", "failure", "listing"} :
     /\ seedDir' = outcome
     /\ IF outcome # "listing"     \* err != nil; "absent" is os.IsNotExist(err)
        THEN /\ IF NothingToImport(onClassic, outcome = "absent")
                THEN ImportReturn(NoModel, ErrNothingToDo)
                ELSE ImportReturn(NoModel, ErrReadDir)
             /\ UNCHANGED <<dirKnown, dc>>
        ELSE /\ \E l \in listings : dc' = l
             /\ dirKnown' = TRUE
             /\ pc' = "i_scan"
             /\ UNCHANGED impresult
  /\ UNCHANGED <<durable, callvars, seedFile, devWrites, commitCalls, fi, batch,
                 modelRef, sawConflict, modelAssertion, poplocals, result>>

\* variant: the loop keeps the latest model reference without comparing
RECURSIVE ScanRefs_KeepLatest(_, _)
ScanRefs_KeepLatest(mref, refs) ==
  IF refs = <<>> THEN [modelRef |-> mref, conflict |-> FALSE]
  ELSE ScanRefs_KeepLatest(IF Head(refs).type = "model" THEN Head(refs) ELSE mref,
                           Tail(refs))

\* firstboot.go 248-255: the loop over the references of one file.
\* Result: the model reference kept, and whether the loop returned the
\* "more than one model assertion" error.
RECURSIVE ScanRefs(_, _)
ScanRefs(mref, refs) ==
  IF refs = <<>> THEN [modelRef |-> mref, conflict |-> FALSE]
  ELSE LET ref == Head(refs) IN
       IF ref.type = "model"
       THEN IF mref # NoRef /\ Unique(mref) # Unique(ref)
            THEN [modelRef |-> mref, conflict |-> TRUE]
            ELSE ScanRefs(ref, Tail(refs))
       ELSE ScanRefs(mref, Tail(refs))

\* variant: the assertions of a file go to the database at once
AddStream_IntoDb(db, b, refs) ==
  [store |-> db \cup {refs[k] : k \in DOMAIN refs},
   batch |-> b \cup {refs[k] : k \in DOMAIN refs}]

\* firstboot.go 213-220: readAsserts adds the assertions of a file to the
\* batch; the database is not touched
AddStream(db, b, refs) ==
  [store |-> db, batch |-> b \cup {refs[k] : k \in DOMAIN refs}]

\* firstboot.go 242-256: one iteration of the loop over the directory
ScanFile ==
  /\ pc = "i_scan"
  /\ fi < Len(dc)
  /\ LET f == dc[fi + 1]
         r == ScanRefs(modelRef, f.refs)
         added == AddStream(store, batch, f.refs)
     IN /\ fi' = fi + 1
        /\ did' = did \cup {"add-stream"}
        /\ IF ~f.ok
           THEN /\ ImportReturn(NoModel, ErrReadAsserts)
                /\ UNCHANGED <<store, batch, modelRef, sawConflict>>
           ELSE /\ batch' = added.batch
                /\ store' = added.store
                /\ modelRef' = r.modelRef
                /\ sawConflict' = r.conflict
                /\ IF r.conflict
                   THEN ImportReturn(NoModel, ErrManyModels)
                   ELSE pc' = "i_scan" /\ UNCHANGED impresult
  /\ UNCHANGED <<seeded, device, onClassic, callvars, found, devWrites, commitCalls,
                 dirKnown, dc, modelAssertion, poplocals, result>>

\* variant: a missing model reference goes unnoticed
NeedModel_Never(mref) == FALSE

\* firstboot.go 258: if modelRef == nil
NeedModel(mref) == mref = NoRef

\* firstboot.go 257-260: after the loop, a model reference is needed
CheckModelRef ==
  /\ pc = "i_scan"
  /\ fi = Len(dc)
  /\ IF NeedModel(modelRef)
     THEN ImportReturn(NoModel, ErrNeedModel)
     ELSE pc' = "i_commit" /\ UNCHANGED impresult
  /\ UNCHANGED <<durable, callvars, found, effects, implocals, poplocals, result>>

\* firstboot.go 262-264: batch.Commit(st); the commit adds the whole batch
\* to the database or fails without adding anything
Commit ==
  /\ pc = "i_commit"
  /\ commitCalls' = commitCalls + 1
  /\ did' = did \cup {"commit"}
  /\ \E ok \in BOOLEAN :
       IF ok THEN /\ store' = store \cup batch
                  /\ pc' = "i_resolve"
                  /\ UNCHANGED impresult
       ELSE /\ ImportReturn(NoModel, ErrCommit)
            /\ UNCHANGED store
  /\ UNCHANGED <<seeded, device, onClassic, callvars, found, devWrites, implocals,
                 poplocals, result>>

\* modelRef.Resolve(assertstate.DB(st).Find): the model assertions the
\* database can return for a reference
Resolve(ref, db, models) ==
  IF ref \in db
  THEN {m \in models : <<m.brand, m.model>> = ref.key}
  ELSE {}

\* variant: only a classic model on an all-snaps build is refused
ClassicMismatch_OneWay(classicBuild, classicModel) ==
  classicModel /\ ~classicBuild

\* firstboot.go 273: if release.OnClassic != classicModel
ClassicMismatch(classicBuild, classicModel) == classicBuild # classicModel

\* firstboot.go 266-281: resolve the model, compare its classic header with
\* release.OnClassic
ResolveAndCheckClassic(models) ==
  /\ pc = "i_resolve"
  /\ IF Resolve(modelRef, store, models) = {}
     THEN /\ ImportReturn(NoModel, ErrResolve)
          /\ UNCHANGED modelAssertion
     ELSE \E a \in Resolve(modelRef, store, models) :
            /\ modelAssertion' = a
            /\ IF ClassicMismatch(onClassic, a.classic)
               THEN ImportReturn(NoModel,
                      IF a.classic THEN ErrClassicModel ELSE ErrAllSnapsModel)
               ELSE /\ pc' = "i_setdevice"
                    /\ UNCHANGED impresult
  /\ UNCHANGED <<durable, callvars, found, effects, dirKnown, dc, fi, batch, modelRef,
                 sawConflict, poplocals, result>>

\* variant: only the brand is taken from the model
DeviceFromModel_BrandOnly(dev, m) == [dev EXCEPT !.brand = m.brand]

\* firstboot.go 284-285: device.Brand and device.Model come from the model
DeviceFromModel(dev, m) == [dev EXCEPT !.brand = m.brand, !.model = m.model]

\* firstboot.go 283-290: device.Brand/Model are set from the model and stored
SetDevice ==
  /\ pc = "i_setdevice"
  /\ did' = did \cup {"set-device"}
  /\ \E ok \in BOOLEAN :
       IF ok THEN /\ device' = DeviceFromModel(device, modelAssertion)
                  /\ devWrites' = devWrites + 1
                  /\ ImportReturn(modelAssertion, NoErr)
       ELSE /\ ImportReturn(NoModel, ErrSetDevice)
            /\ UNCHANGED <<device, devWrites>>
  /\ UNCHANGED <<seeded, store, onClassic, callvars, found, commitCalls, implocals,
                 poplocals, result>>


(* ------------------------- task sets ----------------------------------- *)
\* a task set: id, kind, snap name, flags, and the ids of the task sets all
\* of its tasks wait for
TaskSet(id, kind, name, required, skipConfigure) ==
  [id |-> id, kind |-> kind, name |-> name, required |-> required,
   skipConfigure |-> skipConfigure, waits |-> {}]

\* variant: the task set is made to wait for itself
WaitAll_Self(ts, anotherTs) == [ts EXCEPT !.waits = @ \cup {ts.id}]

\* state.TaskSet.WaitAll: every task of ts waits for every task of anotherTs
WaitAll(ts, anotherTs) == [ts EXCEPT !.waits = @ \cup {anotherTs.id}]

\* state.NewTaskSet(markSeeded): the task set holding the mark-seeded task,
\* which has id 0 and waits on what the task waits on
MarkSeededTs(waits) ==
  [id |-> 0, kind |-> "mark-seeded", name |-> "", required |-> FALSE,
   skipConfigure |-> FALSE, waits |-> waits]

\* snapstate.ConfigureSnap(st, name, UseConfigDefaults)
ConfigureSnap(id, name) == TaskSet(id, "configure", name, FALSE, FALSE)

\* what installSeedSnap can meet for a seed entry: the entry is marked
\* unasserted or not; snapasserts.DeriveSideInfo (called for asserted
\* entries only) succeeds, finds nothing, or fails otherwise; and
\* snapstate.InstallPath (called when no error came before) succeeds or fails
InstallOutcomes ==
  {[unasserted |-> TRUE, derive |-> "unused", install |-> i] :
     i \in {"ok", "error"}} \cup
  {[unasserted |-> FALSE, derive |-> "ok", install |-> i] :
     i \in {"ok", "error"}} \cup
  {[unasserted |-> FALSE, derive |-> d, install |-> "unused"] :
     d \in {"not-found", "error"}}

\* variant: an entry whose signatures are not found is installed from its
\* name alone, as if it were unasserted
InstallSeedSnap_NameFallback(id, name, required, skipConfigure, o) ==
  IF ~o.unasserted /\ o.derive = "error"
  THEN [err |-> ErrDeriveSideInfo, sideInfo |-> "lookup-error"]
  ELSE LET from == IF o.unasserted \/ o.derive = "not-found"
                   THEN "name-only" ELSE "derived" IN
       IF o.install = "error"
       THEN [err |-> ErrInstallPath, sideInfo |-> from]
       ELSE [err |-> NoErr, sideInfo |-> from,
             ts |-> TaskSet(id, "install", name, required, skipConfigure)]

\* firstboot.go 44-71: installSeedSnap(st, sn, flags) under an outcome; the
\* result says how the side info was obtained: from the name alone, derived
\* from the assertions, or not at all because the lookup found nothing or
\* failed
InstallSeedSnap(id, name, required, skipConfigure, o) ==
  IF ~o.unasserted /\ o.derive = "not-found"
  THEN [err |-> ErrNoSignatures, sideInfo |-> "not-found"]
  ELSE IF ~o.unasserted /\ o.derive = "error"
  THEN [err |-> ErrDeriveSideInfo, sideInfo |-> "lookup-error"]
  ELSE LET from == IF o.unasserted THEN "name-only" ELSE "derived" IN
       IF o.install = "error"
       THEN [err |-> ErrInstallPath, sideInfo |-> from]
       ELSE [err |-> NoErr, sideInfo |-> from,
             ts |-> TaskSet(id, "install", name, required, skipConfigure)]

\* names of the entries of seed.Snaps: the keys of the seeding map (115-118)
Seeding(snaps) == {snaps[k] : k \in DOMAIN snaps}

\* an index expression of the code is in range
InRange(s, i) == i + 1 \in DOMAIN s

\* a run-time panic: the call ends without returning
Panic ==
  /\ pc' = "panicked"
  /\ UNCHANGED result

(* ------------------- populateStateFromSeedImpl ------------------------- *)
\* firstboot.go 87-93: the result of importAssertionsFromSeed is examined
AfterImport ==
  /\ pc = "p_import_ret"
  /\ IF importErr = ErrNothingToDo
     THEN /\ Return(<<MarkSeededTs(markSeeded.waits)>>, NoErr)
          /\ did' = did \cup {"task-set"}
     ELSE IF importErr # NoErr
     THEN /\ Return(<<>>, importErr)
          /\ UNCHANGED did
     ELSE /\ pc' = "p_read_seed"
          /\ UNCHANGED <<did, result>>
  \* the locals of importAssertionsFromSeed are gone
  /\ dirKnown' = FALSE /\ dc' = <<>> /\ fi' = 0 /\ batch' = {}
  /\ modelRef' = NoRef /\ sawConflict' = FALSE /\ modelAssertion' = NoModel
  /\ UNCHANGED <<durable, callvars, found, devWrites, commitCalls, impresult, poplocals>>

\* variant: a missing seed.yaml is never tolerated
SeedOptional_Never(classicBuild, exists) == FALSE

\* firstboot.go 96: if release.OnClassic && !osutil.FileExists(seedYamlFile)
SeedOptional(classicBuild, exists) == classicBuild /\ ~exists

\* firstboot.go 95-104: seed.yaml is looked for and parsed
ReadSeedYaml(manifests) ==
  /\ pc = "p_read_seed"
  /\ \E outcome \in {"absent", "unreadable", "parsed"} :
     /\ seedFile' = outcome
     /\ IF SeedOptional(onClassic, outcome # "absent")
        THEN /\ Return(<<MarkSeededTs(markSeeded.waits)>>, NoErr)
             /\ did' = did \cup {"task-set"}
             /\ UNCHANGED <<seedRead, seed>>
        ELSE /\ did' = did \cup {"read-seed"}    \* snap.ReadSeedYaml
             /\ IF outcome # "parsed"
                THEN /\ Return(<<>>, ErrReadSeedYaml)
                     /\ UNCHANGED <<seedRead, seed>>
                ELSE /\ \E m \in manifests : seed' = m
                     /\ seedRead' = TRUE
                     /\ pc' = "p_core"
                     /\ UNCHANGED result
  /\ UNCHANGED <<durable, callvars, seedDir, devWrites, commitCalls, implocals,
                 impresult, markSeeded, tsAll, configTss, last, alreadySeeded, li,
                 nextId, sideInfoFrom, snapMet>>

\* variant: the check for core is skipped
MissingCore_Never(snaps) == FALSE

\* firstboot.go 126-127: coreSeed := seeding["core"]; if coreSeed == nil
MissingCore(snaps) == "core" \notin Seeding(snaps)

\* firstboot.go 106-137: the required and seeding maps, and core
SeedCore ==
  /\ pc = "p_core"
  /\ IF Len(seed) # 0
     THEN IF MissingCore(seed)
          THEN /\ Return(<<>>, ErrNoCore)
               /\ UNCHANGED <<did, tsAll, configTss, alreadySeeded, nextId,
                              sideInfoFrom, snapMet>>
          ELSE \E o \in InstallOutcomes :
                 LET r == InstallSeedSnap(nextId, "core", FALSE, TRUE, o) IN
                 /\ sideInfoFrom' = r.sideInfo
                 /\ snapMet' = [name |-> "core", o |-> o]
                 /\ IF r.err # NoErr
                    THEN /\ Return(<<>>, r.err)
                         /\ UNCHANGED <<did, tsAll, configTss, alreadySeeded,
                                        nextId>>
                    ELSE /\ tsAll' = Append(tsAll, r.ts)
                         /\ alreadySeeded' = alreadySeeded \cup {"core"}
                         /\ configTss' =
                              Append(configTss, ConfigureSnap(nextId + 1, "core"))
                         /\ nextId' = nextId + 2
                         /\ did' = did \cup {"task-set"}
                         /\ pc' = "p_kernel"
                         /\ UNCHANGED result
     ELSE /\ pc' = "p_kernel"
          /\ UNCHANGED <<did, tsAll, configTss, alreadySeeded, nextId,
                         sideInfoFrom, snapMet, result>>
  /\ last' = 0     \* line 139
  /\ UNCHANGED <<durable, callvars, found, devWrites, commitCalls, implocals, impresult,
                 markSeeded, seedRead, seed, li>>

\* variant: the seed entry of a kernel or gadget is not looked for
MissingSeed_Never(snaps, name) == FALSE

\* firstboot.go 141-143, 159-161: seeding[name] == nil
MissingSeed(snaps, name) == name \notin Seeding(snaps)

\* firstboot.go 140-156 and 158-174: the kernel block and the gadget block
\* are the same code for model.Kernel() and model.Gadget()
SeedFoundation(name, errMissing, nextPc) ==
  IF name = ""
  THEN /\ pc' = nextPc
       /\ UNCHANGED <<did, tsAll, configTss, last, alreadySeeded, nextId,
                      sideInfoFrom, snapMet, result>>
  ELSE IF MissingSeed(seed, name)
  THEN /\ Return(<<>>, errMissing)
       /\ UNCHANGED <<did, tsAll, configTss, last, alreadySeeded, nextId,
                      sideInfoFrom, snapMet>>
  ELSE \E o \in InstallOutcomes :
         LET r == InstallSeedSnap(nextId, name, FALSE, TRUE, o) IN
         /\ sideInfoFrom' = r.sideInfo
         /\ snapMet' = [name |-> name, o |-> o]
         /\ IF r.err # NoErr
            THEN /\ Return(<<>>, r.err)
                 /\ UNCHANGED <<did, tsAll, configTss, last, alreadySeeded,
                                nextId>>
            ELSE IF ~InRange(tsAll, last) \/ ~InRange(configTss, last)
            THEN /\ Panic
                 /\ did' = did \cup {"task-set"}
                 /\ UNCHANGED <<tsAll, configTss, last, alreadySeeded, nextId>>
            ELSE /\ tsAll' = Append(tsAll, WaitAll(r.ts, tsAll[last + 1]))
                 /\ alreadySeeded' = alreadySeeded \cup {name}
                 /\ configTss' =
                      Append(configTss,
                             WaitAll(ConfigureSnap(nextId + 1, name),
                                     configTss[last + 1]))
                 /\ last' = last + 1
                 /\ nextId' = nextId + 2
                 /\ did' = did \cup {"task-set"}
                 /\ pc' = nextPc
                 /\ UNCHANGED result

\* firstboot.go 140-156
SeedKernel ==
  /\ pc = "p_kernel"
  /\ SeedFoundation(model.kernel, ErrNoKernelSeed, "p_gadget")
  /\ UNCHANGED <<durable, callvars, found, devWrites, commitCalls, implocals, impresult,
                 markSeeded, seedRead, seed, li>>

\* firstboot.go 158-174
SeedGadget ==
  /\ pc = "p_gadget"
  /\ SeedFoundation(model.gadget, ErrNoGadgetSeed, "p_splice")
  /\ UNCHANGED <<durable, callvars, found, devWrites, commitCalls, implocals, impresult,
                 markSeeded, seedRead, seed, li>>

\* variant: configure(core) waits for the first install, tsAll[0]
LastInstall_First(ts, l) == ts[1]

\* firstboot.go 178: tsAll[last], the last install of core, kernel, gadget
LastInstall(ts, l) == ts[l + 1]

\* variant: last is advanced by one
AdvanceLast_ByOne(l, cfg) == l + 1

\* firstboot.go 180: last += len(configTss)
AdvanceLast(l, cfg) == l + Len(cfg)

\* firstboot.go 176-180: configTss[0] waits for tsAll[last], then the
\* configure task sets are appended
SpliceConfigure ==
  /\ pc = "p_splice"
  /\ IF ~InRange(configTss, 0) \/ ~InRange(tsAll, last)
     THEN /\ Panic
          /\ UNCHANGED <<tsAll, configTss, last>>
     ELSE LET cfg == [configTss EXCEPT ![1] = WaitAll(@, LastInstall(tsAll, last))] IN
          /\ configTss' = cfg
          /\ tsAll' = tsAll \o cfg
          /\ last' = AdvanceLast(last, cfg)
          /\ pc' = "p_loop"
          /\ UNCHANGED result
  /\ UNCHANGED <<durable, callvars, found, effects, implocals, impresult, markSeeded,
                 seedRead, seed, alreadySeeded, li, nextId, sideInfoFrom, snapMet>>

\* variant: no seed entry is marked required
Required_Never(required, name) == FALSE

\* firstboot.go 188: Required: required[sn.Name], the map built at 106-113
Required(required, name) == name \in required

\* firstboot.go 182-200: one iteration of the loop over seed.Snaps
SeedRest ==
  /\ pc = "p_loop"
  /\ li < Len(seed)
  /\ li' = li + 1
  /\ LET sn == seed[li + 1] IN
     IF sn \in alreadySeeded
     THEN /\ pc' = "p_loop"
          /\ UNCHANGED <<did, tsAll, last, nextId, sideInfoFrom, snapMet, result>>
     ELSE \E o \in InstallOutcomes :
            LET r == InstallSeedSnap(nextId, sn, Required(model.required, sn),
                                     FALSE, o) IN
            /\ sideInfoFrom' = r.sideInfo
            /\ snapMet' = [name |-> sn, o |-> o]
            /\ IF r.err # NoErr
               THEN /\ Return(<<>>, r.err)
                    /\ UNCHANGED <<did, tsAll, last, nextId>>
               ELSE IF ~InRange(tsAll, last)
               THEN /\ Panic
                    /\ did' = did \cup {"task-set"}
                    /\ UNCHANGED <<tsAll, last, nextId>>
               ELSE /\ tsAll' = Append(tsAll, WaitAll(r.ts, tsAll[last + 1]))
                    /\ last' = last + 1
                    /\ nextId' = nextId + 1
                    /\ did' = did \cup {"task-set"}
                    /\ pc' = "p_loop"
                    /\ UNCHANGED result
  /\ UNCHANGED <<durable, callvars, found, devWrites, commitCalls, implocals, impresult,
                 markSeeded, seedRead, seed, configTss, alreadySeeded>>

\* variant: mark-seeded waits for the first task set
LastTs_First(ts) == ts[1]

\* firstboot.go 206: ts := tsAll[len(tsAll)-1]
LastTs(ts) == ts[Len(ts)]

\* variant: the call itself sets "seeded" when it returns the graph
Finish_SetsSeeded ==
  /\ pc = "p_loop"
  /\ li = Len(seed)
  /\ IF Len(tsAll) = 0
     THEN /\ Return(<<>>, ErrNoSnaps)
          /\ UNCHANGED seeded
          /\ UNCHANGED <<did, markSeeded, tsAll>>
     ELSE LET ms == [markSeeded EXCEPT !.waits = @ \cup {LastTs(tsAll).id}] IN
          /\ markSeeded' = ms
          /\ tsAll' = Append(tsAll, MarkSeededTs(ms.waits))
          /\ did' = did \cup {"task-set"}
          /\ Return(tsAll', NoErr)
          /\ seeded' = "true"
  /\ UNCHANGED <<store, device, onClassic, callvars, found, devWrites,
                 commitCalls, implocals, impresult, seedRead, seed, configTss, last, alreadySeeded, li, nextId,
                 sideInfoFrom, snapMet>>

\* firstboot.go 202-210: the empty check, mark-seeded waits for the last
\* task set and is appended
Finish ==
  /\ pc = "p_loop"
  /\ li = Len(seed)
  /\ IF Len(tsAll) = 0
     THEN /\ Return(<<>>, ErrNoSnaps)
          /\ UNCHANGED <<did, markSeeded, tsAll>>
     ELSE LET ms == [markSeeded EXCEPT !.waits = @ \cup {LastTs(tsAll).id}] IN
          /\ markSeeded' = ms
          /\ tsAll' = Append(tsAll, MarkSeededTs(ms.waits))
          /\ did' = did \cup {"task-set"}
          /\ Return(tsAll', NoErr)
  /\ UNCHANGED <<durable, callvars, found, devWrites, commitCalls, implocals, impresult,
                 seedRead, seed, configTss, last, alreadySeeded, li, nextId,
                 sideInfoFrom, snapMet>>

\* the mark-seeded task of a returned graph is run by the task runner and
\* sets "seeded" in the state
RunMarkSeeded ==
  /\ pc = "done"
  /\ retErr = NoErr
  /\ retTs # <<>>
  /\ seeded = "unset"
  /\ seeded' = "true"
  /\ UNCHANGED <<store, device, onClassic, pc, callvars, found, effects, implocals,
                 impresult, poplocals, result>>

\* the steps of the program, for the directories, model assertions and
\* seed.yaml contents that can be met and the number of calls made
Next(listings, models, manifests, maxCalls) ==
  \/ Call(maxCalls)
  \/ GetSeeded
  \/ NewMarkSeeded
  \/ ReadDevice
  \/ ReadDir(listings)
  \/ ScanFile
  \/ CheckModelRef
  \/ Commit
  \/ ResolveAndCheckClassic(models)
  \/ SetDevice
  \/ AfterImport
  \/ ReadSeedYaml(manifests)
  \/ SeedCore
  \/ SeedKernel
  \/ SeedGadget
  \/ SpliceConfigure
  \/ SeedRest
  \/ Finish
  \/ RunMarkSeeded

\* repeated calls on small seeds
Spec == Init /\ [][Next(SmallListings, SmallModels, SmallManifests, MaxCalls)]_vars

\* one call, every assertions directory within the bounds
SpecImport == InitImport /\ [][Next(Listings, SmallModels, SmallManifests, 1)]_vars

\* one call, every model and seed.yaml within the bounds
SpecGraph == Init /\ [][Next(SeedListing, Models, Manifests, 1)]_vars

(* ------------------------ graph vocabulary ----------------------------- *)
\* the call has returned a graph built from a parsed, non-empty seed.yaml
BuiltGraph == pc = "done" /\ retErr = NoErr /\ seedRead /\ Len(seed) > 0

\* the foundational snaps of the model, in order: core, kernel, gadget
Foundational(m) ==
  <<"core">> \o (IF m.kernel # "" THEN <<m.kernel>> ELSE <<>>)
             \o (IF m.gadget # "" THEN <<m.gadget>> ELSE <<>>)

\* position in g of the task set with the given id, 0 when there is none
PosOf(g, id) ==
  IF \E k \in DOMAIN g : g[k].id = id
  THEN CHOOSE k \in DOMAIN g : g[k].id = id
  ELSE 0

\* positions of the task sets that the task set at position k waits for,
\* directly or through other task sets
RECURSIVE Preds(_, _, _)
Preds(g, front, n) ==
  LET step == front \cup {PosOf(g, w) : w \in UNION {g[k].waits : k \in front}}
  IN IF n = 0 \/ step = front THEN front ELSE Preds(g, step, n - 1)
Before(g, k) == Preds(g, {k}, Len(g)) \ {k}

(* ------------------------------- C1 ------------------------------------ *)
\* C1: in every graph returned for a non-empty seed.yaml the installs of
\* core, kernel, gadget (those present) are the first task sets and form a
\* chain, each waiting on the one before; the configure task sets follow in
\* the same order, configure(core) waiting on the last of those installs and
\* each later configure on the configure before it; so every foundational
\* install precedes (transitively) every foundational configure.
C1_FoundationChains ==
  BuiltGraph =>
    LET f == Foundational(model)
        n == Len(f)
    IN /\ Len(retTs) >= 2 * n
       /\ \A k \in 1..n :
            /\ retTs[k].kind = "install" /\ retTs[k].name = f[k]
            /\ retTs[k].waits = (IF k = 1 THEN {} ELSE {retTs[k - 1].id})
            /\ retTs[n + k].kind = "configure" /\ retTs[n + k].name = f[k]
            /\ retTs[n + k].waits = {retTs[n + k - 1].id}
       /\ \A i \in 1..n : \A c \in (n + 1)..(2 * n) : i \in Before(retTs, c)
       /\ \A c1, c2 \in (n + 1)..(2 * n) : c1 < c2 => c1 \in Before(retTs, c2)

\* C1 witness: a graph for a model with a gadget and no kernel
C1_Witness ==
  BuiltGraph /\ model.kernel = "" /\ model.gadget = "pc" /\ Len(retTs) = 6


(* ------------------------------- C2 ------------------------------------ *)
\* C2: a call that starts with the seeded flag true fails with "already
\* seeded" at its first check: it creates no task and no task set, never
\* reads the device record or the assertions directory, accumulates and
\* commits nothing, and leaves the database and the device record alone.
\* This holds for the first call and for every later one.
C2_AlreadySeededFirst ==
  (calls > 0 /\ seeded0 = "true") =>
    /\ pc \in {"p_get_seeded", "done"}
    /\ did = {} /\ devWrites = 0 /\ commitCalls = 0
    /\ markSeeded = NoTask /\ tsAll = <<>> /\ configTss = <<>>
    /\ ~dirKnown /\ batch = {}
    /\ store = store0 /\ device = device0
    /\ (pc = "done" => retErr = ErrAlreadySeeded /\ retTs = <<>>)

\* C2 witness: a second call, made after the first call's graph was run and
\* the flag set, has returned
C2_Witness ==
  pc = "done" /\ calls = 2 /\ seeded0 = "true" /\ store # {}
    /\ retErr = ErrAlreadySeeded

(* ------------------------------- C3 ------------------------------------ *)
\* C3: every call ends by returning either an error and no task sets, or no
\* error and a list of task sets that ends with mark-seeded; it never ends
\* in another way.
C3_TwoOutcomes ==
  /\ pc # "panicked"
  /\ pc = "done" =>
       \/ retErr # NoErr /\ retTs = <<>>
       \/ /\ retErr = NoErr /\ retTs # <<>>
          /\ retTs[Len(retTs)].kind = "mark-seeded"

(* ------------------------------- C4 ------------------------------------ *)
\* C4: when the import succeeded, seed.yaml has no entries and the model
\* names neither kernel nor gadget, the call returns the "no snaps to seed"
\* error and no task sets.
C4_NoSnapsError ==
  (pc \in {"done", "panicked"} /\ seedRead /\ seed = <<>>
     /\ model.kernel = "" /\ model.gadget = "") =>
    (pc = "done" /\ retErr = ErrNoSnaps /\ retTs = <<>>)

(* ------------------------------- C10 ----------------------------------- *)
\* C10: when the import succeeded and seed.yaml has entries but none named
\* core, the call returns "cannot proceed without seeding core" and no task
\* sets, whatever kernel, gadget and required snaps the model names: the
\* call ends at the core check, before any snap is looked up or installed.
C10_MissingCore ==
  (seedRead /\ Len(seed) >= 1 /\ "core" \notin Seeding(seed)) =>
    /\ pc \in {"p_core", "done"}
    /\ tsAll = <<>> /\ configTss = <<>> /\ sideInfoFrom = "none"
    /\ "task-set" \notin did
    /\ (pc = "done" => retErr = ErrNoCore /\ retTs = <<>>)

\* C10 witness: core is missing, and so are the model's kernel and gadget
C10_Witness ==
  /\ pc = "done" /\ retErr = ErrNoCore /\ seed = <<"hello", "pc">>
  /\ model.kernel = "pc-kernel" /\ model.gadget = "pc"
  /\ model.required = {"hello"}


(* --------------------- import vocabulary ------------------------------- *)
\* identities of the model references in the first n files of a listing
ModelKeysIn(files, n) ==
  UNION {{files[i].refs[k].key :
            k \in {j \in DOMAIN files[i].refs : files[i].refs[j].type = "model"}} :
         i \in 1..n}

\* the file in which a second model identity shows up, 0 when there is none
ConflictFile(files) ==
  IF \E n \in DOMAIN files : Cardinality(ModelKeysIn(files, n)) >= 2
  THEN CHOOSE n \in DOMAIN files :
         /\ Cardinality(ModelKeysIn(files, n)) >= 2
         /\ \A m \in 1..(n - 1) : Cardinality(ModelKeysIn(files, m)) < 2
  ELSE 0

AllReadable(files, n) == \A i \in 1..n : files[i].ok

\* importAssertionsFromSeed has returned from a listed directory
ImportedDir == pc = "p_import_ret" /\ dirKnown

\* errors raised before batch.Commit is called
PreCommitErrors ==
  {ErrSeededRead, ErrAlreadySeeded, ErrDeviceRead, ErrReadDir, ErrReadAsserts,
   ErrManyModels, ErrNeedModel}
\* errors of the import raised between Commit and SetDevice
MidImportErrors == {ErrCommit, ErrResolve, ErrClassicModel, ErrAllSnapsModel}
\* errors raised after importAssertionsFromSeed returned
PostImportErrors ==
  {ErrReadSeedYaml, ErrNoCore, ErrNoKernelSeed, ErrNoGadgetSeed,
   ErrNoSignatures, ErrDeriveSideInfo, ErrInstallPath, ErrNoSnaps}

(* ------------------------------- C5 ------------------------------------ *)
\* C5 as claimed: whenever the call returns an error, the assertion database
\* and the device record are what they were before the call.
C5_ErrorLeavesStateUntouched ==
  (pc = "done" /\ retErr # NoErr) => (store = store0 /\ device = device0)

\* C5 amended: an error raised before batch.Commit is called leaves the
\* database and the device record as they were; an import error raised
\* before SetDevice leaves the device record as it was; an error raised after
\* a successful commit is returned with the batch committed, and an error
\* raised after the import returned also with the device record written.
C5_EarlyErrorsLeaveStateUntouched ==
  (pc = "done" /\ retErr # NoErr) =>
    /\ retErr \in PreCommitErrors =>
         store = store0 /\ device = device0 /\ commitCalls = 0 /\ devWrites = 0
    /\ retErr \in MidImportErrors => device = device0 /\ devWrites = 0
    /\ retErr \notin PreCommitErrors => commitCalls = 1
    /\ retErr \in PostImportErrors =>
         /\ devWrites = 1 /\ store0 \subseteq store
         /\ [type |-> "model", key |-> <<model.brand, model.model>>] \in store
         /\ device = DeviceFromModel(device0, model)

\* C5 witness: files were read into the batch and the call then failed for
\* want of a model assertion
C5_Witness ==
  pc = "done" /\ retErr = ErrNeedModel /\ "add-stream" \in did

(* ------------------------------- C6 ------------------------------------ *)
\* C6: the device record is written at most once per import and only as its
\* last step: after every file was read, one model identity was found, the
\* batch was committed, the model resolved and its classic header found equal
\* to the build mode. An import that fails otherwise than in SetDevice leaves
\* the record unchanged; a successful import leaves brand and model equal to
\* those of the resolved model assertion.
C6_DeviceWrittenLast ==
  /\ devWrites <= 1
  /\ devWrites = 0 => device = device0
  /\ devWrites = 1 =>
       /\ pc \notin {"i_device", "i_readdir", "i_scan", "i_commit", "i_resolve",
                     "i_setdevice"}
       /\ importErr = NoErr /\ model \in Models /\ commitCalls = 1
       /\ model.classic = onClassic
  /\ (pc = "p_import_ret" /\ importErr \notin {NoErr, ErrSetDevice}) =>
       devWrites = 0 /\ device = device0
  /\ (pc = "p_import_ret" /\ importErr = NoErr) =>
       /\ devWrites = 1 /\ model = modelAssertion
       /\ device.brand = modelAssertion.brand
       /\ device.model = modelAssertion.model
       /\ modelRef.key = <<modelAssertion.brand, modelAssertion.model>>
       /\ fi = Len(dc) /\ AllReadable(dc, Len(dc))
       /\ ModelKeysIn(dc, Len(dc)) = {modelRef.key}
       /\ commitCalls = 1 /\ batch \subseteq store
       /\ modelAssertion.classic = onClassic

\* C6 witness: a successful import from two files replaces the identity an
\* earlier boot had stored
C6_Witness ==
  /\ pc = "p_import_ret" /\ importErr = NoErr /\ Len(dc) = 2
  /\ device0 = [brand |-> "canonical", model |-> "pc"]
  /\ device = [brand |-> "other-brand", model |-> "pc"]

(* ------------------------------- C7 ------------------------------------ *)
\* C7 as claimed: whenever the files of the directory together hold model
\* references of two identities the import fails with "cannot add more than
\* one model assertion", before the commit; otherwise it is not rejected for
\* that reason and a success yields the one model.
C7_ConflictAlwaysReported ==
  ImportedDir =>
    IF ConflictFile(dc) > 0
    THEN importErr = ErrManyModels /\ commitCalls = 0
    ELSE /\ importErr # ErrManyModels
         /\ importErr = NoErr =>
              ModelKeysIn(dc, Len(dc)) = {<<model.brand, model.model>>}

\* C7 amended: when the files hold model references of two identities the
\* import fails before the commit: with "cannot add more than one model
\* assertion", in the file where the second identity shows up, if every file
\* up to that one can be read, and with "cannot read assertions" if one of
\* them cannot. When all model references have one identity the import is
\* never rejected as having more than one model, and a success yields the
\* model of that identity.
C7_ConflictReportedWhenRead ==
  ImportedDir =>
    LET c == ConflictFile(dc) IN
    /\ (c > 0 /\ AllReadable(dc, c)) =>
         /\ importErr = ErrManyModels /\ sawConflict /\ fi = c
         /\ commitCalls = 0 /\ store = store0
    /\ (c > 0 /\ ~AllReadable(dc, c)) =>
         /\ importErr = ErrReadAsserts /\ fi < c
         /\ commitCalls = 0 /\ store = store0
    /\ c = 0 =>
         /\ importErr # ErrManyModels /\ ~sawConflict
         /\ importErr = NoErr =>
              ModelKeysIn(dc, Len(dc)) = {<<model.brand, model.model>>}

\* C7 witness: the second identity is met in the second file
C7_Witness ==
  /\ ImportedDir /\ importErr = ErrManyModels /\ fi = 2
  /\ Cardinality(ModelKeysIn(dc, 1)) = 1

(* ------------------------------- C8 ------------------------------------ *)
\* C8: when every file of the directory was read and none held a model
\* reference (an empty directory included) the import fails with "need a
\* model assertion" and the batch is not committed. Commit is called at most
\* once per import, after every file was read without error and a model
\* reference was found.
C8_NeedModel ==
  /\ commitCalls <= 1
  /\ pc \in {"i_device", "i_readdir", "i_scan", "i_commit"} => commitCalls = 0
  /\ (ImportedDir /\ AllReadable(dc, Len(dc)) /\ ModelKeysIn(dc, Len(dc)) = {}) =>
       importErr = ErrNeedModel /\ commitCalls = 0 /\ store = store0
  /\ (commitCalls = 1 /\ pc \in {"i_resolve", "i_setdevice", "p_import_ret"}) =>
       /\ dirKnown /\ fi = Len(dc) /\ AllReadable(dc, Len(dc))
       /\ modelRef # NoRef /\ modelRef.key \in ModelKeysIn(dc, Len(dc))

\* C8 witness: two files were read into the batch, neither held a model
C8_Witness ==
  /\ ImportedDir /\ importErr = ErrNeedModel /\ Len(dc) = 2 /\ batch # {}

(* ------------------------------- C9 ------------------------------------ *)
\* C9 as claimed: a model whose classic header differs from the build mode
\* is refused with the error for that direction, and when the error is
\* returned no install, configure or mark-seeded fragment has been created.
C9_MismatchBeforeAnyFragment ==
  /\ (pc = "p_import_ret" /\ modelAssertion \in Models
        /\ modelAssertion.classic # onClassic) =>
       importErr = (IF onClassic THEN ErrAllSnapsModel ELSE ErrClassicModel)
  /\ (pc = "done" /\ retErr \in {ErrClassicModel, ErrAllSnapsModel}) =>
       /\ retTs = <<>> /\ tsAll = <<>> /\ configTss = <<>>
       /\ "task-set" \notin did
       /\ ~markSeeded.created

\* C9 amended: such a model is refused with the error for that direction
\* before any install or configure task set is built and before any task
\* set is returned; the mark-seeded task itself was created by st.NewTask
\* before the import and exists, waiting on nothing and in no task set, when
\* the error is returned.
C9_MismatchBeforeAnyTaskSet ==
  /\ (pc = "p_import_ret" /\ modelAssertion \in Models
        /\ modelAssertion.classic # onClassic) =>
       /\ importErr = (IF onClassic THEN ErrAllSnapsModel ELSE ErrClassicModel)
       /\ devWrites = 0
  /\ retErr = ErrClassicModel => ~onClassic
  /\ retErr = ErrAllSnapsModel => onClassic
  /\ (pc = "done" /\ retErr \in {ErrClassicModel, ErrAllSnapsModel}) =>
       /\ retTs = <<>> /\ tsAll = <<>> /\ configTss = <<>>
       /\ "task-set" \notin did /\ ~seedRead
       /\ markSeeded = [created |-> TRUE, waits |-> {}] /\ "new-task" \in did

\* C9 witness: a classic build refuses an all-snaps model
C9_Witness ==
  pc = "done" /\ retErr = ErrAllSnapsModel /\ onClassic /\ commitCalls = 1

(* ---------------- C11: the kernel and gadget lookups ------------------- *)
\* the model names a kernel, or a gadget, that seed.yaml has no entry for
KernelMissing ==
  seedRead /\ model.kernel # "" /\ model.kernel \notin Seeding(seed)

GadgetMissing ==
  seedRead /\ model.gadget # "" /\ model.gadget \notin Seeding(seed)

\* the errors installSeedSnap returns
InstallErrors == {ErrNoSignatures, ErrDeriveSideInfo, ErrInstallPath}

\* the latest installSeedSnap met an outcome it fails on
InstallFailed ==
  /\ snapMet # NoSnap
  /\ \/ snapMet.o.install = "error"
     \/ snapMet.o.derive \in {"not-found", "error"}

\* the "cannot find seed information" error of the first lookup that fails
SeedInformationError ==
  IF KernelMissing THEN ErrNoKernelSeed ELSE ErrNoGadgetSeed

\* C11 as stated: whenever the model names a kernel or a gadget without an
\* entry in seed.yaml, the call fails with a "cannot find seed information"
\* error and returns no graph.
C11_AlwaysSeedInformationError ==
  (pc \in {"done", "panicked"} /\ (KernelMissing \/ GadgetMissing)) =>
    /\ pc = "done"
    /\ retErr \in {ErrNoKernelSeed, ErrNoGadgetSeed}
    /\ retTs = <<>>

\* C11: when the model names a kernel or a gadget without an entry in
\* seed.yaml, the call returns an error and no graph and never indexes out
\* of range. The error is "cannot find seed information" for the first such
\* snap (kernel before gadget) when its lookup is reached: always for an
\* empty seed.yaml, and for one with core when every install before the
\* lookup succeeded. Otherwise the earlier error is returned: "cannot
\* proceed without seeding core" for a non-empty seed.yaml without core, or
\* the error of the install that failed.
C11_SeedInformationErrorWhenReached ==
  (pc \in {"done", "panicked"} /\ (KernelMissing \/ GadgetMissing)) =>
    /\ pc = "done"
    /\ retTs = <<>>
    /\ retErr =
         IF seed = <<>> THEN SeedInformationError
         ELSE IF "core" \notin Seeding(seed) THEN ErrNoCore
         ELSE IF InstallFailed
              THEN InstallSeedSnap(0, snapMet.name, FALSE, TRUE, snapMet.o).err
         ELSE SeedInformationError
    /\ (retErr = ErrNoKernelSeed => Len(tsAll) = IF seed = <<>> THEN 0 ELSE 1)
    /\ (retErr = ErrNoGadgetSeed => ~KernelMissing)

\* an empty seed.yaml and a model with a gadget and no kernel: the gadget
\* lookup fails before tsAll[last] is indexed
C11_Witness ==
  /\ pc = "done"
  /\ seedRead /\ seed = <<>>
  /\ model.kernel = "" /\ model.gadget = "pc"
  /\ retErr = ErrNoGadgetSeed /\ retTs = <<>>

(* ------------------- C12: the short-circuit cases ---------------------- *)
\* on a classic build the assertions directory, or (after a successful
\* import) seed.yaml, was found not to exist
ShortCircuit ==
  onClassic /\ (seedDir = "absent" \/ seedFile = "absent")

\* C12: when importAssertionsFromSeed returns errNothingToDo (classic build,
\* assertions directory absent), or the import succeeded on a classic build
\* and seed.yaml does not exist, the call returns nil error and exactly one
\* task set, the one of mark-seeded, which waits for nothing; no install or
\* configure task set is made and seed.yaml is not parsed.
C12_ShortCircuitGraph ==
  /\ (pc = "done" /\ ShortCircuit) =>
       /\ retErr = NoErr
       /\ retTs = <<MarkSeededTs({})>>
       /\ tsAll = <<>> /\ configTss = <<>> /\ snapMet = NoSnap
       /\ ~seedRead /\ "read-seed" \notin did
  /\ (pc = "done" /\ importErr = ErrNothingToDo) =>
       ShortCircuit /\ seedDir = "absent" /\ seedFile = "unknown"
  /\ (pc = "done" /\ ShortCircuit /\ seedFile = "absent") =>
       importErr = NoErr /\ "set-device" \in did

\* the import committed a batch and set the device, and seed.yaml is absent
\* on a classic build: the graph is mark-seeded alone
C12_Witness ==
  /\ pc = "done"
  /\ onClassic /\ seedDir = "listing" /\ seedFile = "absent"
  /\ store # store0 /\ device # NoDevice
  /\ retErr = NoErr /\ retTs = <<MarkSeededTs({})>>

(* ------------------- C13: the remaining seed entries ------------------- *)
\* the entries of seed.yaml that are not core, the kernel or the gadget of
\* the model, in the order of seed.yaml
RECURSIVE RestOf(_, _)
RestOf(snaps, m) ==
  IF snaps = <<>> THEN <<>>
  ELSE IF Head(snaps) \in {"core", m.kernel, m.gadget}
       THEN RestOf(Tail(snaps), m)
       ELSE <<Head(snaps)>> \o RestOf(Tail(snaps), m)

\* positions of the install task sets of a snap in a graph
InstallsOf(g, name) ==
  {k \in DOMAIN g : g[k].kind = "install" /\ g[k].name = name}

\* C13: in every returned graph built from seed.yaml, each entry that is not
\* core, the kernel or the gadget has exactly one install task set; these
\* come in the order of seed.yaml right after the configure task sets; the
\* first waits for the last configure task set and each later one for the
\* install of the entry before it, and for nothing else.
C13_RestChain ==
  BuiltGraph =>
    LET n == Len(Foundational(model))
        rest == RestOf(seed, model) IN
    /\ Len(retTs) = 2 * n + Len(rest) + 1
    /\ \A k \in 1..Len(rest) :
         LET ts == retTs[2 * n + k] IN
         /\ ts.kind = "install" /\ ts.name = rest[k]
         /\ InstallsOf(retTs, rest[k]) = {2 * n + k}
         /\ ts.waits = {retTs[2 * n + k - 1].id}
         /\ retTs[2 * n + k - 1].kind = IF k = 1 THEN "configure" ELSE "install"
         /\ k > 1 => retTs[2 * n + k - 1].name = rest[k - 1]

\* a model without kernel and gadget: hello and pc are installed after
\* configure(core), in the order of seed.yaml, pc waiting for hello
C13_Witness ==
  /\ BuiltGraph
  /\ seed = <<"hello", "core", "pc">>
  /\ model.kernel = "" /\ model.gadget = ""
  /\ Len(retTs) = 5
  /\ retTs[4].name = "pc" /\ retTs[4].waits = {retTs[3].id}

(* -------------------- C14: the reference sequence ---------------------- *)
\* (kind, snap, required) of a task set
Triple(kind, name, required) ==
  [kind |-> kind, name |-> name, required |-> required]

\* the triples of the snaps of s, of one kind, required when in req
RECURSIVE MapSeq(_, _, _)
MapSeq(s, kind, req) ==
  IF s = <<>> THEN <<>>
  ELSE <<Triple(kind, Head(s), Head(s) \in req)>> \o MapSeq(Tail(s), kind, req)

\* the reference sequence for a model and a non-empty seed.yaml: installs of
\* core, kernel, gadget; their configures; an install of every other entry
\* in the order of seed.yaml, required when the model requires it;
\* mark-seeded
Reference(m, snaps) ==
  MapSeq(Foundational(m), "install", {})
    \o MapSeq(Foundational(m), "configure", {})
    \o MapSeq(RestOf(snaps, m), "install", m.required)
    \o <<Triple("mark-seeded", "", FALSE)>>

\* a graph read as a sequence of triples
TriplesOf(g) ==
  [k \in DOMAIN g |-> Triple(g[k].kind, g[k].name, g[k].required)]

\* C14: for every model and seed.yaml on which the call succeeds with a
\* built graph, the returned list read as (kind, snap, required) equals the
\* reference sequence; a seed.yaml with core alone and a model without
\* kernel, gadget and required snaps gives install(core), configure(core),
\* mark-seeded; and the sequence of kinds and snaps and the waits (each
\* task set waits exactly for the one before it in the list) are the same
\* whatever the required snaps of the model are.
C14_ReferenceSequence ==
  BuiltGraph =>
    /\ TriplesOf(retTs) = Reference(model, seed)
    /\ \A k \in DOMAIN retTs :
         retTs[k].waits = IF k = 1 THEN {} ELSE {retTs[k - 1].id}
    /\ (seed = <<"core">> /\ model.kernel = "" /\ model.gadget = ""
          /\ model.required = {}) =>
         TriplesOf(retTs) =
           <<Triple("install", "core", FALSE),
             Triple("configure", "core", FALSE),
             Triple("mark-seeded", "", FALSE)>>

\* the model requires hello and pc; pc is its gadget and hello one of the
\* remaining entries: only install(hello) is marked required
C14_Witness ==
  /\ BuiltGraph
  /\ seed = <<"hello", "pc", "core">>
  /\ model.gadget = "pc" /\ model.kernel = ""
  /\ model.required = {"hello", "pc"}
  /\ Len(retTs) = 6
  /\ retTs[5].name = "hello" /\ retTs[5].required
  /\ ~retTs[2].required

(* --------------------- C15: the shape of the graph --------------------- *)
\* positions of the task sets of g no task set of which waits for anything
Roots(g) == {k \in DOMAIN g : g[k].waits = {}}

\* positions of the task sets g[k] waits for
WaitsOn(g, k) == {j \in DOMAIN g : g[j].id \in g[k].waits}

\* positions reached from g[k] by following the wait relation one or more
\* times; k itself is among them exactly when g[k] is on a cycle
Upstream(g, k) == Preds(g, WaitsOn(g, k), Len(g))

\* C15: in every graph returned with nil error the wait relation has no
\* cycle and every task set is a root or has a root among its transitive
\* predecessors; the task sets a task set waits for are all in the graph
\* and, for a non-empty seed.yaml, all earlier in the list, and the only
\* root is install(core).
C15_AcyclicRooted ==
  (pc = "done" /\ retErr = NoErr) =>
    /\ \A k \in DOMAIN retTs :
         /\ k \notin Upstream(retTs, k)
         /\ k \in Roots(retTs) \/ Upstream(retTs, k) \cap Roots(retTs) # {}
         /\ Cardinality(WaitsOn(retTs, k)) = Cardinality(retTs[k].waits)
    /\ BuiltGraph =>
         /\ Roots(retTs) = {1}
         /\ retTs[1].kind = "install" /\ retTs[1].name = "core"
         /\ \A k \in DOMAIN retTs : \A j \in WaitsOn(retTs, k) : j < k

\* a graph of seven task sets, install(core) its only root
C15_Witness ==
  /\ BuiltGraph
  /\ Len(retTs) = 7
  /\ Roots(retTs) = {1}
  /\ Upstream(retTs, 7) = 1..6

(* ----------------------- C16: mark-seeded ------------------------------ *)
\* positions of the mark-seeded task sets of a graph
MarkSeededIn(g) == {k \in DOMAIN g : g[k].kind = "mark-seeded"}

\* C16: every graph returned with nil error holds exactly one mark-seeded
\* task set, as its last element; no task set waits for it; outside the
\* short-circuit cases it waits exactly for the task set just before it,
\* and every other task set is among its transitive predecessors.
C16_MarkSeededLast ==
  (pc = "done" /\ retErr = NoErr) =>
    LET n == Len(retTs) IN
    /\ MarkSeededIn(retTs) = {n}
    /\ \A k \in DOMAIN retTs : retTs[n].id \notin retTs[k].waits
    /\ ~ShortCircuit =>
         /\ n > 1
         /\ retTs[n].waits = {retTs[n - 1].id}
         /\ Upstream(retTs, n) = 1..(n - 1)
    /\ ShortCircuit => n = 1 /\ retTs[n].waits = {}

\* a built graph of four task sets: mark-seeded is the fourth and waits for
\* the install of hello before it
C16_Witness ==
  /\ BuiltGraph
  /\ seed = <<"core", "hello">>
  /\ Len(retTs) = 4
  /\ retTs[4].kind = "mark-seeded"
  /\ retTs[3].kind = "install" /\ retTs[3].name = "hello"
  /\ retTs[4].waits = {retTs[3].id}
  /\ markSeeded.waits = {retTs[3].id}

(* ------------------ C17: when nothing is to be done -------------------- *)
\* C17: importAssertionsFromSeed returns errNothingToDo only on a classic
\* build whose assertions directory does not exist. On a build that is not
\* classic an absent directory fails with "cannot read assert seed dir" and
\* an absent seed.yaml with the error of reading it; on a classic build a
\* directory that cannot be read for another reason fails with "cannot
\* read assert seed dir" too. None of these calls returns a graph.
C17_NothingToDoOnlyOnClassic ==
  /\ importErr = ErrNothingToDo => onClassic /\ seedDir = "absent"
  /\ (pc = "done" /\ ~onClassic /\ seedDir = "absent") =>
       importErr = ErrReadDir /\ retErr = ErrReadDir /\ retTs = <<>>
  /\ (pc = "done" /\ ~onClassic /\ seedFile = "absent") =>
       retErr = ErrReadSeedYaml /\ retTs = <<>> /\ ~seedRead
  /\ (pc = "done" /\ seedDir = "failure") =>
       importErr = ErrReadDir /\ retErr = ErrReadDir /\ retTs = <<>>

\* a classic build whose assertions directory exists but cannot be read
C17_Witness ==
  /\ pc = "done"
  /\ onClassic /\ seedDir = "failure"
  /\ "read-dir" \in did
  /\ retErr = ErrReadDir /\ retTs = <<>>

(* --------------------- C18: the seeded flag ---------------------------- *)
\* C18: no step of populateStateFromSeedImpl writes "seeded": the flag
\* changes only when the task runner runs the mark-seeded task of a returned
\* graph, and when a call returns, with or without an error, the flag is
\* what it was when the call began. So a call that begins while the flag is
\* still unset, a first or a later one, passes the already-seeded check.
C18_SeededNotWritten ==
  [][/\ seeded' # seeded =>
          pc = "done" /\ pc' = "done" /\ retErr = NoErr /\ retTs # <<>>
     /\ (pc # "done" /\ pc' \in {"done", "panicked"}) => seeded' = seeded0'
     /\ (pc = "p_get_seeded" /\ seeded = "unset") =>
          pc' = "p_new_task" /\ retErr' = NoErr]_vars

\* a second call returned a graph although the first call had already
\* imported the assertions: the flag was unset throughout
C18_Witness ==
  /\ calls = 2
  /\ pc = "done" /\ retErr = NoErr /\ retTs # <<>>
  /\ device0 # NoDevice /\ store0 # {}
  /\ seeded0 = "unset" /\ seeded = "unset"

(* ------------------- C19: provenance of a seed snap -------------------- *)
\* C19: installSeedSnap builds the side info of an unasserted entry from its
\* name alone, without a lookup in the assertion database; for any other
\* entry it derives it from the database; when the lookup finds nothing the
\* error is "cannot find signatures with metadata for snap" and when it
\* fails otherwise its own error is returned, a different one. Either way
\* the call ends there with that error and no graph, whatever task sets
\* were already made, and a returned graph holds an install for every entry
\* of seed.yaml.
C19_Provenance ==
  /\ snapMet # NoSnap =>
       LET o == snapMet.o IN
       /\ o.unasserted => sideInfoFrom = "name-only"
       /\ (~o.unasserted /\ o.derive = "ok") => sideInfoFrom = "derived"
       /\ (~o.unasserted /\ o.derive = "not-found") =>
            /\ sideInfoFrom = "not-found"
            /\ pc = "done" /\ retErr = ErrNoSignatures /\ retTs = <<>>
       /\ (~o.unasserted /\ o.derive = "error") =>
            /\ sideInfoFrom = "lookup-error"
            /\ pc = "done" /\ retErr = ErrDeriveSideInfo /\ retTs = <<>>
       /\ (pc = "done" /\ retErr = ErrNoSignatures) =>
            ~o.unasserted /\ o.derive = "not-found"
       /\ (pc = "done" /\ retErr = ErrDeriveSideInfo) =>
            ~o.unasserted /\ o.derive = "error"
  /\ ErrNoSignatures # ErrDeriveSideInfo
  /\ BuiltGraph => \A k \in DOMAIN seed : InstallsOf(retTs, seed[k]) # {}

\* core was installed and configured; the signatures of hello, an asserted
\* entry, are not found: the call fails and the task sets made are dropped
C19_Witness ==
  /\ pc = "done"
  /\ seed = <<"core", "hello">>
  /\ snapMet.name = "hello"
  /\ ~snapMet.o.unasserted /\ snapMet.o.derive = "not-found"
  /\ Len(tsAll) = 2
  /\ retErr = ErrNoSignatures /\ retTs = <<>>

(* ------------------- C20: one task set per snap ------------------------ *)
\* positions of the configure task sets of a snap in a graph
ConfiguresOf(g, name) ==
  {k \in DOMAIN g : g[k].kind = "configure" /\ g[k].name = name}

\* C20: in every returned graph no snap has more than one install task set
\* and no snap has more than one configure task set, also when the kernel
\* and the gadget of the model are the same snap or one of them is core.
C20_OneFragmentPerSnap ==
  BuiltGraph =>
    \A name \in Names :
      /\ Cardinality(InstallsOf(retTs, name)) <= 1
      /\ Cardinality(ConfiguresOf(retTs, name)) <= 1

====
